---- MODULE Spec2Model ----
(***************************************************************************)
(* MurLock: a distributed lock over Redis.  The model covers the two Lua   *)
(* scripts executed by the store (lock.lua, unlock.lua), the expiry of a   *)
(* record by its PX time-to-live, and MurLockService.runWithLock with its  *)
(* helpers lock/attemptLock, acquireLock, unlock and releaseLock.          *)
(*                                                                         *)
(* Every call chain c in Calls performs one runWithLock.  The awaits of    *)
(* the code are the points where call chains interleave: the round trip of *)
(* an EVAL, the back-off sleep and the body.  An EVAL is executed by the   *)
(* store in one step (Redis runs a script atomically).                     *)
(***************************************************************************)
EXTENDS Integers, Naturals, Sequences, FiniteSets, TLC

----------------------------------------------------------------------------
(* Bounds of the model *)

NumCalls == 2
MaxReleaseTime == 2
MaxAttemptsOption == 2
MaxBlockingAttempts == 2
MaxDelayAttempts == 3
MaxKeyParams == 2
MaxArgs == 2

\* Calls of the service's log method.
MaxLogCalls == 3

Calls == 1..NumCalls
Keys == {"k1", "k2"}

----------------------------------------------------------------------------
(* The authority store *)

\* What redis.call("get", key) yields for a key without a record; no clientId
\* equals it.
Nil == 0

\* A key without a record.  A record is the owner's clientId and the
\* remaining time-to-live.
NoRecord == [owner |-> Nil, pttl |-> 0]

\* A record written without looking at the present owner.
LockScriptOverwrite(db, key, clientId, releaseTime) ==
    [ret |-> 1,
     db  |-> [db EXCEPT ![key] = [owner |-> clientId, pttl |-> releaseTime]]]

\* The comparison of the owner negated: a foreign record counts as one's own.
LockScriptNegated(db, key, clientId, releaseTime) ==
    IF db[key].owner # clientId /\ db[key] # NoRecord
      THEN [ret |-> 1, db |-> db]
      ELSE [ret |-> 1,
            db  |-> [db EXCEPT ![key] =
                        [owner |-> clientId, pttl |-> releaseTime]]]

\* SET NX alone, without the comparison of the owner.
LockScriptNxOnly(db, key, clientId, releaseTime) ==
    IF db[key] = NoRecord
      THEN [ret |-> 1,
            db  |-> [db EXCEPT ![key] =
                        [owner |-> clientId, pttl |-> releaseTime]]]
      ELSE [ret |-> 0, db |-> db]

\* A store with one lock for all keys: refused while any key is held under
\* another clientId.
LockScriptAnyKey(db, key, clientId, releaseTime) ==
    IF \E k \in Keys : db[k] # NoRecord /\ db[k].owner # clientId
      THEN [ret |-> 0, db |-> db]
      ELSE [ret |-> 1,
            db  |-> [db EXCEPT ![key] =
                        [owner |-> clientId, pttl |-> releaseTime]]]

\* lock.lua: get(key) == clientId, or else SET key clientId NX PX releaseTime.
\* The `or` of Lua does not evaluate the SET when the GET already matched.
LockScript(db, key, clientId, releaseTime) ==
    IF db[key].owner = clientId
      THEN [ret |-> 1, db |-> db]
      ELSE IF db[key] = NoRecord
        THEN [ret |-> 1,
              db  |-> [db EXCEPT ![key] =
                          [owner |-> clientId, pttl |-> releaseTime]]]
        ELSE [ret |-> 0, db |-> db]

\* A delete that does not compare the owner.
UnlockScriptAnyOwner(db, key, clientId) ==
    IF db[key] # NoRecord
      THEN [ret |-> 1, db |-> [db EXCEPT ![key] = NoRecord]]
      ELSE [ret |-> 0, db |-> db]

\* A matching owner reported without the DEL.
UnlockScriptKeeps(db, key, clientId) ==
    IF db[key].owner = clientId
      THEN [ret |-> 1, db |-> db]
      ELSE [ret |-> 0, db |-> db]

\* unlock.lua: DEL key when get(key) == clientId, else 0.
UnlockScript(db, key, clientId) ==
    IF db[key].owner = clientId
      THEN [ret |-> 1, db |-> [db EXCEPT ![key] = NoRecord]]
      ELSE [ret |-> 0, db |-> db]

\* The passing of one unit of time at the store: every record's remaining
\* time-to-live (SET ... PX) goes down and a record that reaches 0 is gone.
Expire(db) ==
    [k \in Keys |->
        IF db[k] = NoRecord THEN NoRecord
        ELSE IF db[k].pttl = 1 THEN NoRecord
        ELSE [db[k] EXCEPT !.pttl = @ - 1]]

----------------------------------------------------------------------------
(* MurLockService *)

VARIABLES
    options,            \* MURLOCK_OPTIONS of the manager(s)
    method,             \* releaseTime and wait the calls pass to runWithLock
    lockKeys,           \* the lock keys the calls' arguments resolve to
    redis,              \* the store: key -> record
    pc,                 \* where each call chain is in runWithLock
    lockKey,            \* runWithLock's lockKey
    clientId,           \* runWithLock's const clientId
    attemptsRemaining,  \* attemptLock's parameter
    delay,              \* attemptLock's const delay
    als,                \* the AsyncLocalStorage store of each call chain
    obs,                \* what an observer of each call has seen so far
    chain,              \* the call chain (execution context) each call runs in
    alsLast,            \* the last operation on the AsyncStorageManager
    last,               \* the last script evaluated directly at the store
    testService,        \* the state the functions run under the lock work on
    client,             \* the redis client: its error handling and its state
    cachedClientId,     \* private clientId of the early MurLockService
    decorated           \* the last call of a decorated method or of log

vars == <<options, method, lockKeys, redis, pc, lockKey, clientId, attemptsRemaining,
          delay, als, chain, alsLast, obs, last, testService, client,
          cachedClientId, decorated>>

\* options.wait of the integration tests.
BaseWait == 50

\* A fixed per-call wait (README, "Fixed Wait Strategy Per Method").
FixedWait == 1500

\* A caller-supplied wait function (README, "Dynamic Wait Strategy").
WaitFunction(retries) == 70 * retries

\* runWithLock called without a `wait` argument.
NoWait == [kind |-> "undefined", ms |-> 0]

\* The values of runWithLock's `wait` argument.
WaitArgs ==
    { NoWait,
      [kind |-> "number",    ms |-> 0],
      [kind |-> "number",    ms |-> FixedWait],
      [kind |-> "function",  ms |-> 0] }

Options ==
    [wait : {BaseWait},
     maxAttempts : 0..MaxAttemptsOption,
     blocking : BOOLEAN,
     ignoreUnlockFail : BOOLEAN]

\* One token for every call of the manager.
generateUuidFixed(c) == 1

\* ./utils generateUuid: a value no other call chain gets.
generateUuid(c) == c

\* asyncLocalStorage.getStore() of a call chain that has entered no scope.
NoStore == [active |-> FALSE, clientId |-> Nil]

\* new Map(): the store of a scope just entered; get('clientId') of it is
\* undefined.
EmptyMap == [active |-> TRUE, clientId |-> Nil]

\* A value a call chain stores under 'clientId' by itself (the unit test's
\* setClientID('clientId', 'abc123')); no generateUuid token equals it.
ValueOf(x) == NumCalls + x

\* Every active store behaves as one shared Map: a set in one call chain
\* writes what the other call chains read.
setShared(a, x, value) ==
    IF a[x].active
      THEN [ok  |-> TRUE,
            als |-> [y \in DOMAIN a |->
                       IF a[y].active THEN [a[y] EXCEPT !.clientId = value]
                                      ELSE a[y]]]
      ELSE [ok |-> FALSE, als |-> a]

\* A getStore that makes a store when there is none.
getStoreCreates(a, x) ==
    [ok |-> TRUE, store |-> IF a[x].active THEN a[x] ELSE EmptyMap]

\* AsyncStorageManager.getStore: the store of the call chain, or the throw of
\* AsyncStorageManagerException('No active store found').
getStore(a, x) ==
    IF a[x].active THEN [ok |-> TRUE, store |-> a[x]]
                   ELSE [ok |-> FALSE, store |-> NoStore]

\* A register that keeps the store of a scope that is active already.
registerKeeps(a, x) ==
    IF a[x].active THEN a ELSE [a EXCEPT ![x] = EmptyMap]

\* AsyncStorageManager.register: asyncLocalStorage.enterWith(new Map()), for
\* the rest of the call chain.
register(a, x) == [a EXCEPT ![x] = EmptyMap]

\* AsyncStorageManager.set(key, value) for key 'clientId'.
set(a, x, value) ==
    LET s == getStore(a, x) IN
      IF s.ok
        THEN [ok |-> TRUE,
              als |-> [a EXCEPT ![x] = [s.store EXCEPT !.clientId = value]]]
        ELSE [ok |-> FALSE, als |-> a]

\* AsyncStorageManager.get(key) for key 'clientId'.
get(a, x) ==
    LET s == getStore(a, x) IN
      IF s.ok THEN [ok |-> TRUE, value |-> s.store.clientId]
              ELSE [ok |-> FALSE, value |-> Nil]

NoAlsLast == [op |-> "none", chain |-> 1, ok |-> TRUE, value |-> Nil,
              before |-> NoStore, after |-> NoStore]

NoObs ==
    [attempts  |-> 0,       \* lock EVALs sent
     lockIds   |-> {},      \* the clientIds of the lock EVALs
     locked    |-> FALSE,   \* a lock EVAL of the call has returned 1
     lockError |-> FALSE,   \* a lock EVAL of the call was rejected
     sleeps    |-> 0,       \* back-off sleeps taken
     waited    |-> 0,       \* milliseconds of back-off slept in all
     bodies    |-> 0,       \* times fn was invoked
     releases  |-> 0,       \* unlock EVALs sent
     releaseId |-> Nil,     \* the clientId of the unlock EVAL
     fn        |-> "none",  \* how fn ended: returned | threw
     unlock    |-> "none",  \* the unlock EVAL: 1 | 0 | error
     expired   |-> FALSE,   \* holding the key, its record has expired
     thrown    |-> "none",  \* the class of the error acquireLock threw
     warned    |-> FALSE,   \* unlock logged 'Failed to release lock ...'
     raised    |-> "none"]  \* how runWithLock ended

EmptyDb == [k \in Keys |-> NoRecord]

NoLast == [cmd |-> "none", key |-> "k1", clientId |-> Nil, releaseTime |-> 0,
           ret |-> 0, before |-> EmptyDb, after |-> EmptyDb]

\* TestService of the end-to-end tests: private counter = 0, and per call the
\* const currentValue of incrementCounter and the value the call resolved to.
NoTestService ==
    [counter      |-> 0,
     currentValue |-> [c \in Calls |-> 0],
     results      |-> [c \in Calls |-> 0]]

\* The client after onModuleInit: connected, no 'error' event so far.  later
\* is the set of calls that started after an 'error' event.
NewClient(failFast) ==
    [failFast |-> failFast, errored |-> FALSE, fatal |-> FALSE, later |-> {}]

\* No decorated method and no log call has been observed.
NoDecorated == [op |-> "none"]

\* The service's calls and store after construction.
IdleService ==
    /\ redis = EmptyDb
    /\ pc = [c \in Calls |-> "idle"]
    /\ lockKey = [c \in Calls |-> "k1"]
    /\ clientId = [c \in Calls |-> Nil]
    /\ attemptsRemaining = [c \in Calls |-> 0]
    /\ delay = [c \in Calls |-> 0]
    /\ als = [c \in Calls |-> NoStore]
    /\ chain = [c \in Calls |-> c]
    /\ alsLast = NoAlsLast
    /\ obs = [c \in Calls |-> NoObs]
    /\ last = NoLast
    /\ testService = NoTestService
    /\ cachedClientId = Nil

\* No call has started, the store is empty.
IdleCalls ==
    /\ decorated = NoDecorated
    /\ IdleService

\* The manager after construction and onModuleInit, fail-fast off.
Idle ==
    /\ client = NewClient(FALSE)
    /\ IdleCalls

Init ==
    /\ options \in Options
    /\ method \in [releaseTime : {MaxReleaseTime}, wait : {NoWait}]
    /\ lockKeys = {"k1"}
    /\ Idle

\* The throw taken one attempt early.
AttemptsExhaustedEarly(remaining) == remaining <= 1

\* attemptLock: if (attemptsRemaining === 0) throw.
AttemptsExhausted(remaining) == remaining = 0

\* Blocking mode given up once the attempts are exhausted.
ShouldContinueBounded(remaining) == ~AttemptsExhausted(remaining)

\* RetryScheduler.shouldContinue: always in blocking mode, else while attempts
\* remain.
ShouldContinue(remaining) ==
    options.blocking \/ ~AttemptsExhausted(remaining)

\* The default delay doubled with every attempt.
DelayExponential(wait, remaining) ==
    LET n == options.maxAttempts - remaining + 1 IN
    IF wait.kind = "function" THEN WaitFunction(n)
    ELSE IF wait.kind = "number" /\ wait.ms # 0 THEN wait.ms
    ELSE options.wait * 2 ^ (n - 1)

\* A per-call wait of 0 taken as a delay of 0 ms.
DelayZeroHonoured(wait, remaining) ==
    LET n == options.maxAttempts - remaining + 1 IN
    IF wait.kind = "function" THEN WaitFunction(n)
    ELSE IF wait.kind = "number" THEN wait.ms
    ELSE options.wait * n

\* attemptLock's delay after a failed attempt: wait ? (typeof wait ===
\* 'function' ? wait(n) : wait) : options.wait * n, with
\* n = maxAttempts - attemptsRemaining + 1.  The number 0 is falsy.
Delay(wait, remaining) ==
    LET n == options.maxAttempts - remaining + 1 IN
    IF wait.kind = "function" THEN WaitFunction(n)
    ELSE IF wait.kind = "number" /\ wait.ms # 0 THEN wait.ms
    ELSE options.wait * n

\* try { return await operation() } finally { await releaseLock() }: an
\* exception of the finally block replaces the outcome of the try block.
TryFinally(tryOutcome, finallyThrows) ==
    IF finallyThrows THEN "ReleaseError" ELSE tryOutcome

\* An unlock that throws on result 0 whatever the options say.
UnlockThrowsAlways(ret) == ret = 0

\* An unlock that never looks at the result.
UnlockThrowsNever(ret) == FALSE

\* unlock: result === 0 throws unless options.ignoreUnlockFail.
UnlockThrows(ret) == ret = 0 /\ ~options.ignoreUnlockFail

\* A releaseLock that swallows a rejected unlock under ignoreUnlockFail.
releaseLockIgnores(unlockRejected) ==
    unlockRejected /\ ~options.ignoreUnlockFail

\* releaseLock: catch (error) { throw new MurLockException(...) }, whatever
\* the options say.
releaseLockThrows(unlockRejected) == unlockRejected

\* unlock: result === 0 with options.ignoreUnlockFail logs a warning.
UnlockWarns(ret) == ret = 0 /\ options.ignoreUnlockFail

\* An acquireLock that swallows what lock throws.
acquireLockSwallows(lockResult) == "acquired"

\* acquireLock: what lock throws is wrapped and thrown again, and a lock that
\* resolves to false throws too; runWithLock goes on only after lock resolved
\* to true.
acquireLock(lockResult) ==
    IF lockResult = "true" THEN "acquired" ELSE "MurLockException"

\* What the caller sees of acquireLock: fn is invoked, or runWithLock rejects
\* with the error of the given kind.
Settle(o, lockResult, kind) ==
    IF acquireLock(lockResult) = "acquired"
      THEN [o EXCEPT !.bodies = @ + 1]
      ELSE [o EXCEPT !.raised = kind, !.thrown = acquireLock(lockResult)]

\* acquireLock awaited inside the try block: its error also runs the finally.
AfterAcquireInsideTry(lockResult) ==
    IF acquireLock(lockResult) = "acquired" THEN "body" ELSE "unlock"

\* Where runWithLock is after acquireLock.
AfterAcquire(lockResult) ==
    IF acquireLock(lockResult) = "acquired" THEN "body" ELSE "done"

\* runWithLock up to its first await, in the call chain x: registerContext,
\* setClientID('clientId', generateUuid()), const clientId = get('clientId'),
\* and the entry of attemptLock(this.options.maxAttempts).
EnterRunWithLock(c, x) ==
    /\ pc[c] = "idle"
    /\ \E key \in lockKeys :
         lockKey' = [lockKey EXCEPT ![c] = key]
    /\ als' = set(register(als, x), x, generateUuid(c)).als
    /\ clientId' = [clientId EXCEPT ![c] = get(als', x).value]
    /\ IF ShouldContinue(options.maxAttempts)
         THEN /\ pc' = [pc EXCEPT ![c] = "attempt"]
              /\ attemptsRemaining' =
                     [attemptsRemaining EXCEPT ![c] = options.maxAttempts]
              /\ obs' = obs
         ELSE /\ pc' = [pc EXCEPT ![c] = AfterAcquire("throws")]
              /\ attemptsRemaining' = attemptsRemaining
              /\ obs' = [obs EXCEPT ![c] =
                            Settle(@, "throws", "AcquireAttempts")]
    /\ UNCHANGED <<alsLast, testService, cachedClientId, decorated, options, method, lockKeys, redis,
                   delay, last>>

\* runWithLock called in a call chain of its own.
RunWithLock(c) ==
    /\ EnterRunWithLock(c, chain[c])
    /\ UNCHANGED <<chain, client>>

\* runWithLock called by the function that call d runs under its lock: the
\* call runs in d's call chain.
RunWithLockNested(c, d) ==
    /\ c # d
    /\ pc[d] = "body"
    /\ EnterRunWithLock(c, chain[d])
    /\ chain' = [chain EXCEPT ![c] = chain[d]]
    /\ UNCHANGED client

\* The release sent with the token the call chain's store holds at the time of
\* the release.
ReleaseTokenFromContext(c) == get(als, chain[c]).value

\* The token runWithLock passes to releaseLock: its const clientId.
ReleaseToken(c) == clientId[c]

\* An attemptLock that gives up right after its last attempt was refused,
\* without the sleep.
AttemptLockNoLastSleep(c) ==
    /\ pc[c] = "attempt"
    /\ LET r == LockScript(redis, lockKey[c], clientId[c], method.releaseTime) IN
         /\ redis' = r.db
         /\ IF r.ret = 1
              THEN /\ pc' = [pc EXCEPT ![c] = AfterAcquire("true")]
                   /\ attemptsRemaining' = [attemptsRemaining EXCEPT ![c] = 0]
                   /\ delay' = delay
                   /\ obs' = [obs EXCEPT ![c] =
                         Settle([@ EXCEPT !.attempts = @ + 1,
                                          !.lockIds = @ \cup {clientId[c]},
                                          !.locked = TRUE], "true", "none")]
              ELSE IF ShouldContinue(attemptsRemaining[c] - 1)
                THEN /\ pc' = [pc EXCEPT ![c] = "sleep"]
                     /\ attemptsRemaining' = attemptsRemaining
                     /\ delay' = [delay EXCEPT ![c] =
                                     Delay(method.wait, attemptsRemaining[c])]
                     /\ obs' = [obs EXCEPT
                                  ![c].attempts = @ + 1,
                                  ![c].lockIds = @ \cup {clientId[c]}]
                ELSE /\ pc' = [pc EXCEPT ![c] = AfterAcquire("throws")]
                     /\ attemptsRemaining' = [attemptsRemaining EXCEPT ![c] = 0]
                     /\ delay' = delay
                     /\ obs' = [obs EXCEPT ![c] =
                           Settle([@ EXCEPT !.attempts = @ + 1,
                                            !.lockIds = @ \cup {clientId[c]}],
                                  "throws", "AcquireAttempts")]
    /\ UNCHANGED <<client, chain, alsLast, testService, cachedClientId, decorated, options, method, lockKeys,
                   lockKey, clientId, als, last>>

\* The callers served in the order of their arrival: a lock EVAL is refused
\* while a call that arrived earlier waits.
AttemptLockQueued(c) ==
    /\ pc[c] = "attempt"
    /\ LET r == IF \E b \in Calls : b < c /\ pc[b] \in {"attempt", "sleep"}
                THEN [ret |-> 0, db |-> redis]
                ELSE LockScript(redis, lockKey[c], clientId[c],
                                method.releaseTime) IN
         /\ redis' = r.db
         /\ IF r.ret = 1
              THEN /\ pc' = [pc EXCEPT ![c] = AfterAcquire("true")]
                   /\ attemptsRemaining' = [attemptsRemaining EXCEPT ![c] = 0]
                   /\ delay' = delay
                   /\ obs' = [obs EXCEPT ![c] =
                         Settle([@ EXCEPT !.attempts = @ + 1,
                                          !.lockIds = @ \cup {clientId[c]},
                                          !.locked = TRUE], "true", "none")]
              ELSE /\ pc' = [pc EXCEPT ![c] = "sleep"]
                   /\ attemptsRemaining' = attemptsRemaining
                   /\ delay' = [delay EXCEPT ![c] =
                                   Delay(method.wait, attemptsRemaining[c])]
                   /\ obs' = [obs EXCEPT
                                ![c].attempts = @ + 1,
                                ![c].lockIds = @ \cup {clientId[c]}]
    /\ UNCHANGED <<client, chain, alsLast, testService, cachedClientId, decorated, options, method, lockKeys, lockKey, clientId, als, last>>

\* attemptLock: the lock EVAL and what follows its reply up to the next await.
\* attemptsRemaining and delay are locals of attemptLock: they are 0 here
\* whenever no attemptLock is active.
AttemptLock(c) ==
    /\ pc[c] = "attempt"
    /\ LET r == LockScript(redis, lockKey[c], clientId[c], method.releaseTime) IN
         /\ redis' = r.db
         /\ IF r.ret = 1
              THEN /\ pc' = [pc EXCEPT ![c] = AfterAcquire("true")]
                   /\ attemptsRemaining' = [attemptsRemaining EXCEPT ![c] = 0]
                   /\ delay' = delay
                   /\ obs' = [obs EXCEPT ![c] =
                         Settle([@ EXCEPT !.attempts = @ + 1,
                                          !.lockIds = @ \cup {clientId[c]},
                                          !.locked = TRUE], "true", "none")]
              ELSE /\ pc' = [pc EXCEPT ![c] = "sleep"]
                   /\ attemptsRemaining' = attemptsRemaining
                   /\ delay' = [delay EXCEPT ![c] =
                                   Delay(method.wait, attemptsRemaining[c])]
                   /\ obs' = [obs EXCEPT
                                ![c].attempts = @ + 1,
                                ![c].lockIds = @ \cup {clientId[c]}]
    /\ UNCHANGED <<client, chain, alsLast, testService, cachedClientId, decorated, options, method, lockKeys, lockKey, clientId, als, last>>

\* A rejected sendCommand handled like a refusal: back off and try again.
AttemptLockErrorRetries(c) ==
    /\ pc[c] = "attempt"
    /\ \E applied \in BOOLEAN :
         redis' = IF applied
                    THEN LockScript(redis, lockKey[c], clientId[c],
                                    method.releaseTime).db
                    ELSE redis
    /\ pc' = [pc EXCEPT ![c] = "sleep"]
    /\ delay' = [delay EXCEPT ![c] = Delay(method.wait, attemptsRemaining[c])]
    /\ obs' = [obs EXCEPT ![c].attempts = @ + 1,
                          ![c].lockIds = @ \cup {clientId[c]},
                          ![c].lockError = TRUE]
    /\ UNCHANGED <<client, chain, alsLast, testService, cachedClientId, decorated, options, method, lockKeys, lockKey, clientId,
                   attemptsRemaining, als, last>>

\* attemptLock: sendCommand rejects (the store is unreachable or errors; the
\* script may or may not have run).  The catch block throws, every enclosing
\* attemptLock passes the error on through its own catch block, acquireLock
\* wraps it, runWithLock rejects.
AttemptLockError(c) ==
    /\ pc[c] = "attempt"
    /\ \E applied \in BOOLEAN :
         redis' = IF applied
                    THEN LockScript(redis, lockKey[c], clientId[c],
                                    method.releaseTime).db
                    ELSE redis
    /\ pc' = [pc EXCEPT ![c] = AfterAcquire("throws")]
    /\ attemptsRemaining' = [attemptsRemaining EXCEPT ![c] = 0]
    /\ obs' = [obs EXCEPT ![c] =
           Settle([@ EXCEPT !.attempts = @ + 1,
                            !.lockIds = @ \cup {clientId[c]},
                            !.lockError = TRUE],
                  "throws", "AcquireError")]
    /\ UNCHANGED <<client, chain, alsLast, testService, cachedClientId, decorated, options, method, lockKeys, lockKey, clientId,
                   delay, als, last>>

\* A back-off sleep that a cancellation ends.
SleepCancelled(c) ==
    /\ pc[c] = "sleep"
    /\ pc' = [pc EXCEPT ![c] = "done"]
    /\ delay' = [delay EXCEPT ![c] = 0]
    /\ attemptsRemaining' = [attemptsRemaining EXCEPT ![c] = 0]
    /\ obs' = [obs EXCEPT ![c].raised = "Cancelled"]
    /\ UNCHANGED <<client, chain, alsLast, testService, cachedClientId, decorated,
                   options, method, lockKeys, redis, lockKey, clientId, als,
                   last>>

\* attemptLock: the sleep is over, attemptLock(attemptsRemaining - 1) is
\* entered.
Sleep(c) ==
    /\ pc[c] = "sleep"
    /\ options.blocking => obs[c].attempts < MaxBlockingAttempts
    /\ delay' = [delay EXCEPT ![c] = 0]
    /\ IF ShouldContinue(attemptsRemaining[c] - 1)
         THEN /\ pc' = [pc EXCEPT ![c] = "attempt"]
              /\ attemptsRemaining' = [attemptsRemaining EXCEPT ![c] = @ - 1]
              /\ obs' = [obs EXCEPT ![c].sleeps = @ + 1,
                                    ![c].waited = @ + delay[c]]
         ELSE /\ pc' = [pc EXCEPT ![c] = AfterAcquire("throws")]
              /\ attemptsRemaining' = [attemptsRemaining EXCEPT ![c] = 0]
              /\ obs' = [obs EXCEPT ![c] =
                     Settle([@ EXCEPT !.sleeps = @ + 1,
                                      !.waited = @ + delay[c]], "throws",
                            "AcquireAttempts")]
    /\ UNCHANGED <<client, chain, alsLast, testService, cachedClientId, decorated, options, method, lockKeys, redis, lockKey, clientId, als,
                   last>>

\* operation() resolves.
FnReturns(c) ==
    /\ pc[c] = "body"
    /\ pc' = [pc EXCEPT ![c] = "unlock"]
    /\ obs' = [obs EXCEPT ![c].fn = "returned"]
    /\ UNCHANGED <<client, chain, alsLast, testService, cachedClientId, decorated, options, method, lockKeys, redis, lockKey, clientId,
                   attemptsRemaining, delay, als, last>>

\* operation() rejects and nothing releases the lock.
FnThrowsNoFinally(c) ==
    /\ pc[c] = "body"
    /\ pc' = [pc EXCEPT ![c] = "done"]
    /\ obs' = [obs EXCEPT ![c].fn = "threw", ![c].raised = "FnError"]
    /\ UNCHANGED <<client, chain, alsLast, testService, cachedClientId, decorated, options, method, lockKeys, redis, lockKey, clientId,
                   attemptsRemaining, delay, als, last>>

\* operation() rejects.
FnThrows(c) ==
    /\ pc[c] = "body"
    /\ pc' = [pc EXCEPT ![c] = "unlock"]
    /\ obs' = [obs EXCEPT ![c].fn = "threw"]
    /\ UNCHANGED <<client, chain, alsLast, testService, cachedClientId, decorated, options, method, lockKeys, redis, lockKey, clientId,
                   attemptsRemaining, delay, als, last>>

\* The finally block: releaseLock -> unlock, the unlock EVAL and its reply.
\* What the caller of runWithLock gets is left to the caller's action.
UnlockReply(c) ==
    /\ pc[c] = "unlock"
    /\ LET r == UnlockScript(redis, lockKey[c], ReleaseToken(c)) IN
         /\ redis' = r.db
         /\ obs' = [obs EXCEPT
                ![c].releases = @ + 1,
                ![c].releaseId = ReleaseToken(c),
                ![c].expired = FALSE,
                ![c].unlock = IF r.ret = 1 THEN "1" ELSE "0",
                ![c].warned = UnlockWarns(r.ret),
                ![c].raised = TryFinally(
                    IF obs[c].fn = "returned" THEN "Returned" ELSE "FnError",
                    UnlockThrows(r.ret))]
    /\ pc' = [pc EXCEPT ![c] = "done"]
    /\ UNCHANGED <<client, chain, alsLast, testService, cachedClientId, options, method, lockKeys, lockKey, clientId, attemptsRemaining,
                   delay, als, last>>

\* The finally block of a runWithLock called on the service itself.
Unlock(c) ==
    /\ UnlockReply(c)
    /\ UNCHANGED decorated

\* The finally block when sendCommand rejects: unlock rejects, releaseLock
\* wraps the error and throws.
UnlockError(c) ==
    /\ pc[c] = "unlock"
    /\ \E applied \in BOOLEAN :
         redis' = IF applied
                    THEN UnlockScript(redis, lockKey[c], ReleaseToken(c)).db
                    ELSE redis
    /\ obs' = [obs EXCEPT
           ![c].releases = @ + 1,
           ![c].releaseId = ReleaseToken(c),
           ![c].expired = FALSE,
           ![c].unlock = "error",
           ![c].raised = TryFinally(
               IF obs[c].fn = "returned" THEN "Returned" ELSE "FnError",
               releaseLockThrows(TRUE))]
    /\ pc' = [pc EXCEPT ![c] = "done"]
    /\ UNCHANGED <<client, chain, alsLast, testService, cachedClientId, decorated, options, method, lockKeys, lockKey, clientId, attemptsRemaining,
                   delay, als, last>>

\* The calls that hold key k by a successful acquire not yet released.
Holds(c) == pc[c] \in {"body", "suspended", "unlock"}

\* Time passes, but the record of a call that is inside its function is
\* written again with the full releaseTime when it is about to expire (a
\* lease kept alive).
TickRenews ==
    /\ \E k \in Keys : redis[k] # NoRecord
    /\ redis' = [k \in Keys |->
                   IF \E c \in Calls : /\ pc[c] = "body" /\ lockKey[c] = k
                                       /\ redis[k].owner = clientId[c]
                                       /\ redis[k].pttl = 1
                     THEN [redis[k] EXCEPT !.pttl = method.releaseTime]
                     ELSE Expire(redis)[k]]
    /\ obs' = obs
    /\ UNCHANGED <<client, chain, alsLast, testService, cachedClientId, decorated, options, method, lockKeys, pc,
                   lockKey, clientId, attemptsRemaining, delay, als, last>>

\* One unit of time passes at the store.
Tick ==
    /\ \E k \in Keys : redis[k] # NoRecord
    /\ redis' = Expire(redis)
    /\ obs' = [c \in Calls |->
                 IF /\ Holds(c)
                    /\ redis[lockKey[c]].owner = clientId[c]
                    /\ redis'[lockKey[c]] = NoRecord
                   THEN [obs[c] EXCEPT !.expired = TRUE]
                   ELSE obs[c]]
    /\ UNCHANGED <<client, chain, alsLast, testService, cachedClientId, decorated, options, method, lockKeys, pc, lockKey, clientId, attemptsRemaining,
                   delay, als, last>>

\* A client evaluates lock.lua at the store: EVAL lockScript 1 key clientId
\* releaseTime.
EvalLock(id, key, releaseTime) ==
    LET r == LockScript(redis, key, id, releaseTime) IN
      /\ redis' = r.db
      /\ last' = [cmd |-> "lock", key |-> key, clientId |-> id,
                  releaseTime |-> releaseTime, ret |-> r.ret,
                  before |-> redis, after |-> r.db]
      /\ UNCHANGED <<client, chain, alsLast, testService, cachedClientId, decorated, options, method, lockKeys, pc, lockKey, clientId,
                     attemptsRemaining, delay, als, obs>>

\* A client evaluates unlock.lua at the store: EVAL unlockScript 1 key clientId.
EvalUnlock(id, key) ==
    LET r == UnlockScript(redis, key, id) IN
      /\ redis' = r.db
      /\ last' = [cmd |-> "unlock", key |-> key, clientId |-> id,
                  releaseTime |-> 0, ret |-> r.ret,
                  before |-> redis, after |-> r.db]
      /\ UNCHANGED <<client, chain, alsLast, testService, cachedClientId, decorated, options, method, lockKeys, pc, lockKey, clientId,
                     attemptsRemaining, delay, als, obs>>

Next ==
    \/ \E c \in Calls : RunWithLock(c)
    \/ \E c \in Calls : AttemptLock(c)
    \/ \E c \in Calls : AttemptLockError(c)
    \/ \E c \in Calls : Sleep(c)
    \/ \E c \in Calls : FnReturns(c)
    \/ \E c \in Calls : FnThrows(c)
    \/ \E c \in Calls : Unlock(c)
    \/ \E c \in Calls : UnlockError(c)
    \/ Tick

Spec == Init /\ [][Next]_vars

\* The options of the integration tests.
IntegrationOptions ==
    [wait |-> BaseWait, maxAttempts |-> 1, blocking |-> FALSE,
     ignoreUnlockFail |-> TRUE]

\* The store alone, with clients that evaluate the two scripts under the
\* clientIds of the call chains, in any order and at any time.
InitStore ==
    /\ options = IntegrationOptions
    /\ method = [releaseTime |-> 1, wait |-> NoWait]
    /\ lockKeys = {"k1"}
    /\ Idle

NextStore ==
    \/ \E id \in {generateUuid(c) : c \in Calls}, key \in Keys,
          releaseTime \in 1..MaxReleaseTime : EvalLock(id, key, releaseTime)
    \/ \E id \in {generateUuid(c) : c \in Calls}, key \in Keys :
          EvalUnlock(id, key)
    \/ Tick

SpecStore == InitStore /\ [][NextStore]_vars

----------------------------------------------------------------------------
(* TestService.incrementCounter under the lock, in blocking mode *)

\* incrementCounter up to its await: const currentValue = this.counter.
IncrementRead(c) ==
    /\ pc[c] = "body"
    /\ pc' = [pc EXCEPT ![c] = "suspended"]
    /\ testService' = [testService EXCEPT
                          !.currentValue[c] = testService.counter]
    /\ UNCHANGED <<client, cachedClientId, decorated, options, method, lockKeys, redis, lockKey, clientId,
                   attemptsRemaining, delay, als, chain, alsLast, obs, last>>

\* incrementCounter after its await: this.counter = currentValue + 1; return
\* this.counter.
IncrementWrite(c) ==
    /\ pc[c] = "suspended"
    /\ pc' = [pc EXCEPT ![c] = "unlock"]
    /\ testService' = [testService EXCEPT
                          !.counter = testService.currentValue[c] + 1,
                          !.currentValue[c] = 0,
                          !.results[c] = testService.currentValue[c] + 1]
    /\ obs' = [obs EXCEPT ![c].fn = "returned"]
    /\ UNCHANGED <<client, cachedClientId, decorated, options, method, lockKeys, redis, lockKey, clientId,
                   attemptsRemaining, delay, als, chain, alsLast, last>>

\* Time passes at the store while every function finishes within its
\* releaseTime: no record expires under the call that holds it.
TickWithinTtl ==
    /\ \A c \in Calls :
          (Holds(c) /\ redis[lockKey[c]].owner = clientId[c])
             => redis[lockKey[c]].pttl > 1
    /\ Tick

\* The options of the end-to-end tests: blocking, unlock failures thrown.
InitCounter ==
    /\ options \in Options
    /\ options.blocking
    /\ ~options.ignoreUnlockFail
    /\ method \in [releaseTime : 1..MaxReleaseTime, wait : {NoWait}]
    /\ lockKeys = {"k1"}
    /\ Idle

NextCounter ==
    \/ \E c \in Calls : RunWithLock(c)
    \/ \E c \in Calls : AttemptLock(c)
    \/ \E c \in Calls : Sleep(c)
    \/ \E c \in Calls : IncrementRead(c)
    \/ \E c \in Calls : IncrementWrite(c)
    \/ \E c \in Calls : Unlock(c)
    \/ TickWithinTtl

SpecCounter == InitCounter /\ [][NextCounter]_vars

----------------------------------------------------------------------------
(* The AsyncStorageManager used by the call chains themselves, and runWithLock
   called from inside a function that runs under a lock *)

\* A call chain calls register().
AlsRegister(x) ==
    /\ als' = register(als, x)
    /\ alsLast' = [op |-> "register", chain |-> x, ok |-> TRUE, value |-> Nil,
                   before |-> als[x], after |-> als'[x]]
    /\ UNCHANGED <<client, cachedClientId, decorated, options, method, lockKeys, redis, pc, lockKey, clientId,
                   attemptsRemaining, delay, chain, obs, last, testService>>

\* A call chain calls set('clientId', value).
AlsSet(x) ==
    /\ LET r == set(als, x, ValueOf(x)) IN
         /\ als' = r.als
         /\ alsLast' = [op |-> "set", chain |-> x, ok |-> r.ok,
                        value |-> ValueOf(x),
                        before |-> als[x], after |-> r.als[x]]
    /\ UNCHANGED <<client, cachedClientId, decorated, options, method, lockKeys, redis, pc, lockKey, clientId,
                   attemptsRemaining, delay, chain, obs, last, testService>>

\* A call chain calls get('clientId').
AlsGet(x) ==
    /\ LET r == get(als, x) IN
         alsLast' = [op |-> "get", chain |-> x, ok |-> r.ok,
                     value |-> r.value, before |-> als[x], after |-> als[x]]
    /\ UNCHANGED <<client, cachedClientId, decorated, options, method, lockKeys, redis, pc, lockKey, clientId,
                   attemptsRemaining, delay, als, chain, obs, last,
                   testService>>

\* The options of the integration tests; as in their nested call, the call
\* made under a lock asks for the same key.
InitAls ==
    /\ options = IntegrationOptions
    /\ method = [releaseTime |-> MaxReleaseTime, wait |-> NoWait]
    /\ lockKeys = {"k1"}
    /\ Idle

NextAls ==
    \/ \E c \in Calls : RunWithLock(c)
    \/ \E c, d \in Calls : RunWithLockNested(c, d)
    \/ \E c \in Calls : AttemptLock(c)
    \/ \E c \in Calls : Sleep(c)
    \/ \E c \in Calls : FnReturns(c)
    \/ \E c \in Calls : Unlock(c)
    \/ \E x \in Calls : AlsRegister(x)
    \/ \E x \in Calls : AlsSet(x)
    \/ \E x \in Calls : AlsGet(x)

SpecAls == InitAls /\ [][NextAls]_vars

----------------------------------------------------------------------------
(* Bounded mode with every kind of `wait` argument *)

InitDelay ==
    /\ options \in [wait : {BaseWait}, maxAttempts : 1..MaxDelayAttempts,
                     blocking : {FALSE}, ignoreUnlockFail : {TRUE}]
    /\ method \in [releaseTime : {MaxReleaseTime}, wait : WaitArgs]
    /\ lockKeys = {"k1"}
    /\ Idle

NextDelay ==
    \/ \E c \in Calls : RunWithLock(c)
    \/ \E c \in Calls : AttemptLock(c)
    \/ \E c \in Calls : Sleep(c)
    \/ \E c \in Calls : FnReturns(c)
    \/ \E c \in Calls : Unlock(c)

SpecDelay == InitDelay /\ [][NextDelay]_vars

----------------------------------------------------------------------------
(* Bounded calls with one attempt each, with expiry and store errors *)

InitLease ==
    /\ options \in [wait : {BaseWait}, maxAttempts : {1},
                     blocking : {FALSE}, ignoreUnlockFail : BOOLEAN]
    /\ method \in [releaseTime : 1..MaxReleaseTime, wait : {NoWait}]
    /\ lockKeys = {"k1"}
    /\ Idle

NextLease ==
    \/ \E c \in Calls : RunWithLock(c)
    \/ \E c \in Calls : AttemptLock(c)
    \/ \E c \in Calls : AttemptLockError(c)
    \/ \E c \in Calls : Sleep(c)
    \/ \E c \in Calls : FnReturns(c)
    \/ \E c \in Calls : FnThrows(c)
    \/ \E c \in Calls : Unlock(c)
    \/ Tick

SpecLease == InitLease /\ [][NextLease]_vars

----------------------------------------------------------------------------
(* Properties *)

\* The record of key k belongs to call c.
Owns(c) == redis[lockKey[c]].owner = clientId[c]

\* runWithLock of c ended by an error of its release.
ReleaseFailed(c) ==
    \/ obs[c].unlock = "error"
    \/ obs[c].unlock = "0" /\ ~options.ignoreUnlockFail

\* C1: mutual exclusion.  Of two calls on the same key that are both between
\* their successful acquire and their release, at least one has had its
\* record expire: as long as no holder's record expires, at most one call
\* holds a key, and the record in the store is that holder's.
MutualExclusion ==
    /\ \A c, d \in Calls :
         (c # d /\ Holds(c) /\ Holds(d) /\ lockKey[c] = lockKey[d])
            => (obs[c].expired \/ obs[d].expired)
    /\ \A c \in Calls : (Holds(c) /\ ~obs[c].expired) => Owns(c)

\* C1 witness: one call holds the key, unexpired, while another call on the
\* same key has been refused and waits.
MutualExclusionWitness ==
    \E c, d \in Calls :
        /\ c # d /\ lockKey[c] = lockKey[d]
        /\ pc[c] = "body" /\ ~obs[c].expired
        /\ pc[d] = "sleep" /\ obs[d].attempts >= 1

\* C2: the conditional acquire is one step at the store.  A record never
\* passes from one owner to another in a step (only through release or
\* expiry), a lock EVAL reports success only when the key had no record or
\* the evaluating client's own record, and after a success the record is the
\* evaluating client's.
AcquireIsAtomic ==
    [][ /\ \A k \in Keys :
              (redis[k] # NoRecord /\ redis'[k] # NoRecord)
                 => redis'[k].owner = redis[k].owner
        /\ (last' # last /\ last'.cmd = "lock" /\ last'.ret = 1)
              => /\ redis[last'.key].owner \in {Nil, last'.clientId}
                 /\ redis'[last'.key].owner = last'.clientId
        /\ (last' # last /\ last'.cmd = "lock" /\ last'.ret = 0)
              => redis[last'.key].owner \notin {Nil, last'.clientId}
      ]_vars

\* C2 witness: the holder of a key has acquired it again under the same
\* clientId while its record was present.
AcquireIsAtomicWitness ==
    /\ last.cmd = "lock" /\ last.ret = 1
    /\ last.before[last.key].owner = last.clientId
    /\ redis[last.key].owner = last.clientId

\* C3: lock.lua returns 1 exactly when the key has no record or the record's
\* owner is the clientId; on a key held by another clientId it returns 0 and
\* the store (owner and remaining time-to-live) is as before.
AcquireContract ==
    last.cmd = "lock" =>
        /\ last.ret \in {0, 1}
        /\ last.ret = 1 <=>
              (\/ last.before[last.key] = NoRecord
               \/ last.before[last.key].owner = last.clientId)
        /\ last.ret = 0 => last.after = last.before

\* C3 witness: an acquire on a key held by another clientId has returned 0.
AcquireContractWitness ==
    /\ last.cmd = "lock" /\ last.ret = 0
    /\ last.before[last.key] # NoRecord
    /\ last.before[last.key].owner # last.clientId
    /\ last.before[last.key].pttl < MaxReleaseTime

\* C4: unlock.lua deletes the record and returns 1 exactly when the record's
\* owner is the clientId; on an absent record or another owner's record it
\* returns 0 and the store is as before.  No other key is touched.
ReleaseContract ==
    last.cmd = "unlock" =>
        /\ last.ret \in {0, 1}
        /\ last.ret = 1 <=> last.before[last.key].owner = last.clientId
        /\ last.ret = 1 =>
              last.after = [last.before EXCEPT ![last.key] = NoRecord]
        /\ last.ret = 0 => last.after = last.before

\* C4 witness: a release under tokenB of a record that tokenA holds has
\* returned 0 and the record is still tokenA's.
ReleaseContractWitness ==
    /\ last.cmd = "unlock" /\ last.ret = 0
    /\ last.before[last.key] # NoRecord
    /\ last.before[last.key].owner # last.clientId
    /\ redis[last.key] = last.before[last.key]

\* C5: a stale release is harmless.  When the release of a call reaches the
\* store while the key's record belongs to another clientId, the store is
\* left as it is and the release does not report success.
StaleReleaseHarmless ==
    [][ \A c \in Calls :
          (/\ pc[c] = "unlock" /\ pc'[c] = "done"
           /\ redis[lockKey[c]] # NoRecord
           /\ ~Owns(c))
             => (redis' = redis /\ obs'[c].unlock # "1")
      ]_vars

\* C5 witness: A's record expired during its body, B acquired the key, A's
\* release has returned 0 and B still holds the key with its record.
StaleReleaseWitness ==
    \E a, b \in Calls :
        /\ a # b /\ lockKey[a] = lockKey[b]
        /\ pc[a] = "done" /\ obs[a].unlock = "0"
        /\ Holds(b) /\ Owns(b) /\ ~obs[b].expired

\* C6: after a successful acquire exactly one release is issued, with the
\* acquiring clientId, whether fn returned or threw, and not before fn ended.
ReleaseExactlyOnce ==
    \A c \in Calls :
        /\ obs[c].releases <= 1
        /\ obs[c].releases = 1 =>
              (obs[c].fn # "none" /\ obs[c].releaseId = clientId[c])
        /\ pc[c] = "body" => obs[c].releases = 0
        /\ (pc[c] = "done" /\ obs[c].bodies >= 1) => obs[c].releases = 1
        /\ obs[c].bodies = 0 => obs[c].releases = 0

\* C6 witness: a call whose fn threw has ended with its one release issued.
ReleaseExactlyOnceWitness ==
    \E c \in Calls :
        pc[c] = "done" /\ obs[c].fn = "threw" /\ obs[c].releases = 1

\* C7 (as stated): when fn throws and the release fails as well, runWithLock
\* rejects with fn's error.
BodyErrorSurfaces ==
    \A c \in Calls :
        (pc[c] = "done" /\ obs[c].fn = "threw" /\ ReleaseFailed(c))
           => obs[c].raised = "FnError"

\* C8: fn is invoked only by a call one of whose lock EVALs has returned 1.
\* A call whose acquisition failed (attempts exhausted, or an error of the
\* EVAL) has ended, has rejected with the acquisition failure, and has not
\* invoked fn; a call that was refused by each of its attempts and has slept
\* after each of them has rejected for exhausted attempts.
NoBodyWithoutLock ==
    \A c \in Calls :
        /\ obs[c].bodies >= 1 => obs[c].locked
        /\ pc[c] \in {"body", "unlock"} => obs[c].locked
        /\ obs[c].raised \in {"AcquireAttempts", "AcquireError"} =>
              (pc[c] = "done" /\ obs[c].bodies = 0 /\ obs[c].fn = "none")
        /\ (pc[c] = "done" /\ ~obs[c].locked) =>
              obs[c].raised \in {"AcquireAttempts", "AcquireError"}
        /\ (pc[c] = "done" /\ ~obs[c].locked
              /\ obs[c].attempts = obs[c].sleeps) =>
              obs[c].raised = "AcquireAttempts"

\* C8 witness: a call has exhausted its attempts on a key that another call
\* holds, and has not run fn.
NoBodyWithoutLockWitness ==
    \E c, d \in Calls :
        /\ c # d /\ lockKey[c] = lockKey[d]
        /\ obs[c].raised = "AcquireAttempts" /\ obs[c].attempts >= 1
        /\ obs[c].bodies = 0
        /\ Holds(d) /\ Owns(d)

\* C9: in bounded mode a call sends at most maxAttempts lock EVALs, and a call
\* that rejects because its attempts are exhausted has sent exactly
\* maxAttempts of them.
ExactlyMaxAttempts ==
    \A c \in Calls :
        /\ ~options.blocking => obs[c].attempts <= options.maxAttempts
        /\ obs[c].raised = "AcquireAttempts" =>
              obs[c].attempts = options.maxAttempts

\* C9 witness: with maxAttempts = 2 a call has been refused twice by a key
\* that another call holds throughout, and has rejected.
ExactlyMaxAttemptsWitness ==
    \E c, d \in Calls :
        /\ c # d /\ lockKey[c] = lockKey[d]
        /\ options.maxAttempts = 2 /\ ~options.blocking
        /\ obs[c].raised = "AcquireAttempts" /\ obs[c].attempts = 2
        /\ pc[d] = "body" /\ ~obs[d].expired

Returned == {c \in Calls : testService.results[c] # 0}

ErrorKindsDiffer ==
    \A c, d \in Calls :
        (obs[c].raised = "AcquireError" /\ obs[d].raised = "AcquireAttempts")
           => obs[c].thrown # obs[d].thrown

\* C14: with ignoreUnlockFail, an unlock EVAL that returns 0 raises nothing:
\* runWithLock ends with fn's outcome (its value or its error) and the
\* failure is logged.
IgnoredUnlockFailure ==
    options.ignoreUnlockFail =>
        \A c \in Calls :
            obs[c].unlock = "0" =>
                /\ pc[c] = "done"
                /\ obs[c].warned
                /\ obs[c].fn = "returned" => obs[c].raised = "Returned"
                /\ obs[c].fn = "threw" => obs[c].raised = "FnError"

\* C14 witness: with ignoreUnlockFail a call whose record expired during fn
\* has had its unlock EVAL return 0 and has resolved to fn's value.
IgnoredUnlockFailureWitness ==
    /\ options.ignoreUnlockFail
    /\ \E c \in Calls :
          /\ obs[c].unlock = "0" /\ obs[c].fn = "returned"
          /\ obs[c].raised = "Returned" /\ obs[c].warned

\* C15: without ignoreUnlockFail, when fn has returned and the unlock EVAL
\* returns 0, runWithLock rejects with the release failure and not with fn's
\* value, and nothing is logged in its place.
UnlockFailureSurfaces ==
    ~options.ignoreUnlockFail =>
        \A c \in Calls :
            (obs[c].unlock = "0" /\ obs[c].fn = "returned") =>
                /\ pc[c] = "done"
                /\ obs[c].raised = "ReleaseError"
                /\ ~obs[c].warned

\* C15 witness: without ignoreUnlockFail, the record of a call expired during
\* fn, another call took the key, and the first call has rejected with the
\* release failure after fn returned.
UnlockFailureSurfacesWitness ==
    /\ ~options.ignoreUnlockFail
    /\ \E c, d \in Calls :
          /\ c # d /\ lockKey[c] = lockKey[d]
          /\ obs[c].unlock = "0" /\ obs[c].fn = "returned"
          /\ obs[c].raised = "ReleaseError"
          /\ Holds(d) /\ Owns(d)

\* C16 (as stated): after every lock EVAL that returned 1 the record is the
\* clientId's with the requested releaseTime as its remaining time-to-live,
\* also when the clientId held the key already.
AcquireRenewsTtl ==
    (last.cmd = "lock" /\ last.ret = 1) =>
        last.after[last.key] =
            [owner |-> last.clientId, pttl |-> last.releaseTime]

\* C17: every lock EVAL of a call and its unlock EVAL carry one and the same
\* token, the call's own, whatever happens in between: round trips, sleeps,
\* the function, a runWithLock called by the function, scopes entered and
\* values set by call chains.
TokenStable ==
    \A c \in Calls :
        /\ obs[c].lockIds \subseteq {generateUuid(c)}
        /\ obs[c].releases >= 1 =>
              /\ obs[c].lockIds = {obs[c].releaseId}
              /\ obs[c].releaseId = clientId[c]
        /\ pc[c] # "idle" => clientId[c] = generateUuid(c)

\* C17 witness: call d has released its key with its own token after a call
\* made by its function had entered a scope of its own in d's call chain.
TokenStableWitness ==
    \E c, d \in Calls :
        /\ c # d /\ chain[c] = chain[d] /\ pc[c] # "idle"
        /\ pc[d] = "done" /\ obs[d].unlock = "1"
        /\ obs[d].releaseId = generateUuid(d)
        /\ als[chain[d]].clientId = generateUuid(c)

\* The values call chain x has stored: its own value and the tokens of the
\* runWithLock calls made in it.
OwnValues(x) ==
    {ValueOf(x)} \cup
        {generateUuid(c) : c \in {c \in Calls : chain[c] = x /\ pc[c] # "idle"}}

\* C18: the store of a call chain holds, and a get in it returns, nothing or
\* a value that this call chain has set, under every interleaving of
\* register, set and get of the call chains and of runWithLock calls; and no
\* two runWithLock calls use the same token.
ChainsIsolated ==
    /\ \A x \in Calls :
          als[x].active => als[x].clientId \in {Nil} \cup OwnValues(x)
    /\ (alsLast.op = "get" /\ alsLast.ok) =>
          alsLast.value \in {Nil} \cup OwnValues(alsLast.chain)
    /\ \A c, d \in Calls :
          (c # d /\ clientId[c] # Nil) => clientId[c] # clientId[d]

\* C18 witness: a call chain has read back its own value while the store of
\* another call chain holds the token of a runWithLock call.
ChainsIsolatedWitness ==
    \E x, y \in Calls :
        /\ x # y
        /\ alsLast.op = "get" /\ alsLast.chain = x
        /\ alsLast.value = ValueOf(x)
        /\ als[y].active /\ als[y].clientId = generateUuid(y)
        /\ pc[y] \in {"attempt", "sleep", "body"}

\* C19: get and set in a call chain without a store throw: they report no
\* value, and no store is there afterwards.
NoActiveStoreThrows ==
    (alsLast.op \in {"get", "set"} /\ ~alsLast.before.active) =>
        /\ ~alsLast.ok
        /\ alsLast.value \in {Nil, ValueOf(alsLast.chain)}
        /\ alsLast.op = "get" => alsLast.value = Nil
        /\ alsLast.after = NoStore

\* C19 witness: a set in a call chain that has entered no scope has thrown,
\* while another call chain has a store.
NoActiveStoreThrowsWitness ==
    /\ alsLast.op = "set" /\ ~alsLast.ok
    /\ ~als[alsLast.chain].active
    /\ \E y \in Calls : als[y].active

\* C20: scopes do not stack.  register leaves the call chain with an empty
\* store whatever the store held before; and once a runWithLock call has been
\* made inside the function of another, the store of the call chain no longer
\* holds the outer call's token, also after the inner call has ended.
ScopesDoNotStack ==
    /\ alsLast.op = "register" => alsLast.after = EmptyMap
    /\ \A c \in Calls :
          chain[c] # c =>
              /\ als[chain[c]].active
              /\ als[chain[c]].clientId # generateUuid(chain[c])

\* C20 witness: a runWithLock call made inside the function of another has
\* ended, the outer call is still running, and the store of the call chain
\* holds the inner call's token.
ScopesDoNotStackWitness ==
    \E c \in Calls :
        /\ chain[c] # c /\ pc[c] = "done"
        /\ pc[chain[c]] \in {"body", "unlock"}
        /\ als[chain[c]].clientId = generateUuid(c)

TotalDelay(m) ==
    IF method.wait.kind = "number" /\ method.wait.ms # 0
      THEN m * method.wait.ms
      ELSE IF method.wait.kind = "function"
        THEN WaitFunction(1) * ((m * (m + 1)) \div 2)
        ELSE options.wait * ((m * (m + 1)) \div 2)

\* C22: a bounded call that fails by contention has sent exactly maxAttempts
\* lock EVALs, has slept exactly maxAttempts times, once after every refused
\* attempt, the last one included, and has not run fn; with maxAttempts = 1
\* and no per-call wait that is one attempt and one sleep of options.wait =
\* 50 ms.  A call never sleeps more often than it was refused.
OneDelayPerAttempt ==
    \A c \in Calls :
        /\ obs[c].sleeps <= obs[c].attempts
        /\ obs[c].raised = "AcquireAttempts" =>
              /\ pc[c] = "done"
              /\ obs[c].attempts = options.maxAttempts
              /\ obs[c].sleeps = options.maxAttempts
              /\ obs[c].waited = TotalDelay(options.maxAttempts)
              /\ obs[c].bodies = 0
              /\ (options.maxAttempts = 1 /\ method.wait = NoWait) =>
                    obs[c].waited = BaseWait

\* C22 witness: with maxAttempts = 1 and options.wait = 50, call B was
\* refused once by the key A holds, slept 50 ms and has rejected while A is
\* still inside its function.
OneDelayPerAttemptWitness ==
    \E a, b \in Calls :
        /\ a # b /\ options.maxAttempts = 1 /\ method.wait = NoWait
        /\ pc[a] = "body" /\ Owns(a)
        /\ obs[b].raised = "AcquireAttempts"
        /\ obs[b].attempts = 1 /\ obs[b].sleeps = 1 /\ obs[b].waited = 50

\* C23: there is no lease renewal.  No step of runWithLock or of the store
\* raises the remaining time-to-live of a record that stays with its owner:
\* from the acquire on it only goes down, while the function runs as well.
NoLeaseRenewal ==
    [][ \A k \in Keys :
          (/\ redis[k] # NoRecord /\ redis'[k] # NoRecord
           /\ redis'[k].owner = redis[k].owner)
             => redis'[k].pttl <= redis[k].pttl
      ]_vars

\* C23 witness: A's function ran past the releaseTime, A's record expired, B
\* acquired the same key, and both are inside their functions.
DoubleExecution ==
    \E a, b \in Calls :
        /\ a # b /\ lockKey[a] = lockKey[b]
        /\ pc[a] = "body" /\ obs[a].expired
        /\ pc[b] = "body" /\ Owns(b) /\ ~obs[b].expired

\* C24: locks are not re-entrant.  A runWithLock made inside the function of
\* another on the same key has a token of its own, never holds the key
\* together with the outer call, and, when it has ended while the outer
\* function still runs, has rejected for exhausted attempts without running
\* its function; every call that acquired releases with its own token and
\* finds its record.
NotReentrant ==
    /\ \A c \in Calls :
          (chain[c] # c /\ lockKey[c] = lockKey[chain[c]]) =>
              /\ clientId[c] # clientId[chain[c]]
              /\ ~(Holds(c) /\ Holds(chain[c]))
              /\ (pc[c] = "done" /\ pc[chain[c]] = "body") =>
                    /\ obs[c].raised = "AcquireAttempts"
                    /\ obs[c].bodies = 0 /\ ~obs[c].locked
    /\ \A c \in Calls :
          obs[c].releases = 1 =>
              obs[c].releaseId = generateUuid(c) /\ obs[c].unlock = "1"

\* C24 witness: the inner call was refused and has rejected without running
\* its function; the outer call has finished and released with its own token.
NotReentrantWitness ==
    \E c \in Calls :
        /\ chain[c] # c /\ lockKey[c] = lockKey[chain[c]]
        /\ pc[c] = "done" /\ obs[c].raised = "AcquireAttempts"
        /\ obs[c].attempts = 1 /\ obs[c].bodies = 0
        /\ pc[chain[c]] = "done" /\ obs[chain[c]].fn = "returned"
        /\ obs[chain[c]].unlock = "1"
        /\ obs[chain[c]].releaseId = generateUuid(chain[c])

\* The 'error' handler of the client with the fail-fast option: with the
\* option on, the client is unrecoverable from the first 'error' event on.
OnClientErrorNeverFatal(cl) == [cl EXCEPT !.errored = TRUE]

OnClientErrorAlwaysFatal(cl) == [cl EXCEPT !.errored = TRUE, !.fatal = TRUE]

OnClientError(cl) == [cl EXCEPT !.errored = TRUE, !.fatal = cl.failFast]

\* A call that is neither unstarted nor ended.
InFlight(c) == pc[c] \notin {"idle", "done"}

\* The client emits 'error'.  When that is fatal, every in-flight runWithLock
\* ends with a ConnectionError; the records in the store are left to expire.
ConnectionError ==
    /\ ~client.fatal
    /\ client' = OnClientError(client)
    /\ IF client'.fatal
         THEN /\ pc' = [c \in Calls |->
                          IF InFlight(c) THEN "done" ELSE pc[c]]
              /\ obs' = [c \in Calls |->
                          IF InFlight(c)
                            THEN [obs[c] EXCEPT !.raised = "ConnectionError",
                                                !.thrown = "ConnectionError",
                                                !.expired = FALSE]
                            ELSE obs[c]]
              /\ attemptsRemaining' = [c \in Calls |-> 0]
              /\ delay' = [c \in Calls |-> 0]
         ELSE UNCHANGED <<pc, obs, attemptsRemaining, delay>>
    /\ UNCHANGED <<cachedClientId, decorated, options, method, lockKeys, redis, lockKey, clientId, als,
                   chain, alsLast, last, testService>>

\* runWithLock on a manager with the fail-fast option: on an unrecoverable
\* client it rejects with a ConnectionError before anything else.
RunWithLockOnClient(c) ==
    IF client.fatal
      THEN /\ pc[c] = "idle"
           /\ pc' = [pc EXCEPT ![c] = "done"]
           /\ obs' = [obs EXCEPT ![c].raised = "ConnectionError",
                                 ![c].thrown = "ConnectionError"]
           /\ client' = [client EXCEPT !.later = @ \cup {c}]
           /\ UNCHANGED <<cachedClientId, decorated, options, method, lockKeys, redis, lockKey,
                          clientId, attemptsRemaining, delay, als, chain,
                          alsLast, last, testService>>
      ELSE /\ EnterRunWithLock(c, chain[c])
           /\ client' = IF client.errored
                           THEN [client EXCEPT !.later = @ \cup {c}]
                           ELSE client
           /\ UNCHANGED chain

\* The manager of the integration tests with maxAttempts 2, with and without
\* the fail-fast option.
InitFailFast ==
    /\ options = [wait |-> BaseWait, maxAttempts |-> MaxAttemptsOption,
                  blocking |-> FALSE, ignoreUnlockFail |-> FALSE]
    /\ method = [releaseTime |-> MaxReleaseTime, wait |-> NoWait]
    /\ lockKeys = {"k1"}
    /\ \E failFast \in BOOLEAN : client = NewClient(failFast)
    /\ IdleCalls

NextFailFast ==
    \/ \E c \in Calls : RunWithLockOnClient(c)
    \/ \E c \in Calls : AttemptLock(c)
    \/ \E c \in Calls : AttemptLockError(c)
    \/ \E c \in Calls : Sleep(c)
    \/ \E c \in Calls : FnReturns(c)
    \/ \E c \in Calls : Unlock(c)
    \/ \E c \in Calls : UnlockError(c)
    \/ ConnectionError

SpecFailFast == InitFailFast /\ [][NextFailFast]_vars

\* A getClientId that makes a new token for every caller.
getClientIdPerCall(cached, c) == generateUuid(c)

\* getClientId of the early MurLockService: the instance's clientId, made
\* by generateUuid on the first call.
getClientId(cached, c) == IF cached # Nil THEN cached ELSE generateUuid(c)

\* The early @MurLock decorator up to the first await of murLockService.lock:
\* const clientId = this.getClientId(), attemptLock(this.options.maxAttempts).
LockCached(c) ==
    /\ pc[c] = "idle"
    /\ \E key \in lockKeys :
         lockKey' = [lockKey EXCEPT ![c] = key]
    /\ cachedClientId' = getClientId(cachedClientId, c)
    /\ clientId' = [clientId EXCEPT ![c] = cachedClientId']
    /\ IF AttemptsExhausted(options.maxAttempts)
         THEN /\ pc' = [pc EXCEPT ![c] = "done"]
              /\ attemptsRemaining' = attemptsRemaining
              /\ obs' = [obs EXCEPT ![c].raised = "AcquireAttempts",
                                    ![c].thrown = "MurLockException"]
         ELSE /\ pc' = [pc EXCEPT ![c] = "attempt"]
              /\ attemptsRemaining' =
                     [attemptsRemaining EXCEPT ![c] = options.maxAttempts]
              /\ obs' = obs
    /\ UNCHANGED <<decorated, options, method, lockKeys, redis, delay, als, chain,
                   alsLast, last, testService, client>>

\* The finally block of the early decorator: unlock(lockKey) sends the unlock
\* EVAL with this.getClientId() and throws when the script returns 0.
UnlockCached(c) ==
    /\ pc[c] = "unlock"
    /\ cachedClientId' = getClientId(cachedClientId, c)
    /\ LET r == UnlockScript(redis, lockKey[c], cachedClientId') IN
         /\ redis' = r.db
         /\ obs' = [obs EXCEPT
                ![c].releases = @ + 1,
                ![c].releaseId = cachedClientId',
                ![c].expired = FALSE,
                ![c].unlock = IF r.ret = 1 THEN "1" ELSE "0",
                ![c].raised = TryFinally(
                    IF obs[c].fn = "returned" THEN "Returned" ELSE "FnError",
                    r.ret = 0)]
    /\ pc' = [pc EXCEPT ![c] = "done"]
    /\ UNCHANGED <<decorated, options, method, lockKeys, lockKey, clientId,
                   attemptsRemaining, delay, als, chain, alsLast, last,
                   testService, client>>

\* Call chains on one early MurLockService, contending for one key; no time
\* passes.
InitCached ==
    /\ options = [wait |-> BaseWait, maxAttempts |-> MaxAttemptsOption,
                  blocking |-> FALSE, ignoreUnlockFail |-> FALSE]
    /\ method \in [releaseTime : 1..MaxReleaseTime, wait : {NoWait}]
    /\ lockKeys = {"k1"}
    /\ Idle

NextCached ==
    \/ \E c \in Calls : LockCached(c)
    \/ \E c \in Calls : AttemptLock(c)
    \/ \E c \in Calls : AttemptLockError(c)
    \/ \E c \in Calls : FnReturns(c)
    \/ \E c \in Calls : FnThrows(c)
    \/ \E c \in Calls : UnlockCached(c)

SpecCached == InitCached /\ [][NextCached]_vars

\* The clientId of a call chain on another MurLockService instance.
OtherClientId == NumCalls + 1

\* Another instance's lock EVAL finds the key free and takes it.
OtherLocks ==
    /\ \E key \in lockKeys :
         /\ redis[key] = NoRecord
         /\ redis' = LockScript(redis, key, OtherClientId,
                                method.releaseTime).db
    /\ UNCHANGED <<decorated, options, method, lockKeys, pc, lockKey, clientId,
                   attemptsRemaining, delay, als, chain, alsLast, obs, last,
                   testService, client, cachedClientId>>

\* The calls arrive one after the other: a call starts after the lock EVAL
\* of every call before it was answered at least once.
RunWithLockInTurn(c) ==
    /\ \A b \in Calls : b < c => obs[b].attempts >= 1
    /\ RunWithLock(c)

\* Callers of one key arriving in turn, with another instance using the key.
InitFifo ==
    /\ options \in [wait : {BaseWait}, maxAttempts : {MaxAttemptsOption},
                     blocking : BOOLEAN, ignoreUnlockFail : {TRUE}]
    /\ method = [releaseTime |-> 1, wait |-> NoWait]
    /\ lockKeys = {"k1"}
    /\ Idle

NextFifo ==
    \/ \E c \in Calls : RunWithLockInTurn(c)
    \/ \E c \in Calls : AttemptLock(c)
    \/ \E c \in Calls : Sleep(c)
    \/ \E c \in Calls : FnReturns(c)
    \/ \E c \in Calls : Unlock(c)
    \/ OtherLocks
    \/ Tick

SpecFifo == InitFifo /\ [][NextFifo]_vars

\* The acquire phase in both modes: calls contending for one key that is
\* never freed by time, with lock EVALs that may be rejected.
InitAcquire ==
    /\ options \in [wait : {BaseWait}, maxAttempts : 1..MaxAttemptsOption,
                     blocking : BOOLEAN, ignoreUnlockFail : {TRUE}]
    /\ method = [releaseTime |-> MaxReleaseTime, wait |-> NoWait]
    /\ lockKeys = {"k1"}
    /\ Idle

NextAcquire ==
    \/ \E c \in Calls : RunWithLock(c)
    \/ \E c \in Calls : AttemptLock(c)
    \/ \E c \in Calls : AttemptLockError(c)
    \/ \E c \in Calls : Sleep(c)
    \/ \E c \in Calls : FnReturns(c)
    \/ \E c \in Calls : Unlock(c)

SpecAcquire == InitAcquire /\ [][NextAcquire]_vars

\* Calls on several keys, each call on any of them; no time passes and no
\* EVAL is rejected.
InitKeys ==
    /\ options \in [wait : {BaseWait}, maxAttempts : 1..MaxAttemptsOption,
                     blocking : BOOLEAN, ignoreUnlockFail : {FALSE}]
    /\ method = [releaseTime |-> MaxReleaseTime, wait |-> NoWait]
    /\ lockKeys = Keys
    /\ Idle

NextKeys ==
    \/ \E c \in Calls : RunWithLock(c)
    \/ \E c \in Calls : AttemptLock(c)
    \/ \E c \in Calls : Sleep(c)
    \/ \E c \in Calls : FnReturns(c)
    \/ \E c \in Calls : Unlock(c)

SpecKeys == InitKeys /\ [][NextKeys]_vars

\* incrementCounter called for every call in turn within one synchronous run
\* of the caller: a call starts after the calls before it have started.
RunWithLockBackToBack(c) ==
    /\ \A b \in Calls : b < c => pc[b] # "idle"
    /\ RunWithLock(c)

\* The lock EVALs answered in any order.
AttemptLockAnyOrder(c) == AttemptLock(c)

\* The one redisClient of the service sends the commands in the order of the
\* sendCommand calls: the first lock EVAL of a call is answered after the
\* first lock EVALs of the calls that started before it.
AttemptLockInOrder(c) ==
    /\ \A b \in Calls : b < c => obs[b].attempts >= 1
    /\ AttemptLock(c)

\* The end-to-end test 'should handle lock timeout and retry': blocking mode,
\* one key, every function finishing within its releaseTime.
InitBackToBack ==
    /\ options \in [wait : {BaseWait}, maxAttempts : 1..MaxAttemptsOption,
                     blocking : {TRUE}, ignoreUnlockFail : {FALSE}]
    /\ method \in [releaseTime : 1..MaxReleaseTime, wait : {NoWait}]
    /\ lockKeys = {"k1"}
    /\ Idle

NextBackToBack ==
    \/ \E c \in Calls : RunWithLockBackToBack(c)
    \/ \E c \in Calls : AttemptLockInOrder(c)
    \/ \E c \in Calls : Sleep(c)
    \/ \E c \in Calls : IncrementRead(c)
    \/ \E c \in Calls : IncrementWrite(c)
    \/ \E c \in Calls : Unlock(c)
    \/ TickWithinTtl

SpecBackToBack == InitBackToBack /\ [][NextBackToBack]_vars

----------------------------------------------------------------------------
(* The @MurLock decorator: the lock key of a decorated method *)

\* class AppService { @MurLock(...) async someFunction(userId, orderId) }
ClassName == "AppService"

PropertyKey == "someFunction"

MethodParameterNames == <<"userId", "orderId">>

\* The arguments a decorated method is called with: strings, undefined, and
\* an object with or without the property id.
Str(v) == [t |-> "string", v |-> v, has |-> FALSE, id |-> ""]

Undefined == [t |-> "undefined", v |-> "", has |-> FALSE, id |-> ""]

Obj(has, id) == [t |-> "object", v |-> "[object Object]", has |-> has, id |-> id]

\* What reading a property of undefined throws.
TypeError == [t |-> "TypeError", v |-> "", has |-> FALSE, id |-> ""]

ArgValues == {Str("65782628"), Str("order2"), Undefined, Obj(TRUE, "7")}

ArgLists == UNION {[1..n -> ArgValues] : n \in 0..MaxArgs}

\* The key parameters given to @MurLock.
KeyParams ==
    {"userId", "orderId", "someCustomKey", "0", "5", "0.id", "userId.id"}

KeyParamLists == UNION {[1..n -> KeyParams] : n \in 0..MaxKeyParams}

\* keyParam.split('.'): [source, path]; path is undefined without a dot.
Split(keyParam) ==
    CASE keyParam = "0.id"      -> [source |-> "0", path |-> "id"]
      [] keyParam = "userId.id" -> [source |-> "userId", path |-> "id"]
      [] OTHER                  -> [source |-> keyParam, path |-> ""]

\* Number(source) of the sources that parseFloat parses.
NumberOf == ("0" :> 0) @@ ("5" :> 5)

\* isNumber: !isNaN(parseFloat(value)).
isNumber(value) == value \in DOMAIN NumberOf

\* Array.prototype.indexOf, counting from 0; -1 when absent.
indexOf(names, source) ==
    IF \E i \in 1..Len(names) : names[i] = source
      THEN (CHOOSE i \in 1..Len(names) :
               /\ names[i] = source
               /\ \A j \in 1..(i - 1) : names[j] # source) - 1
      ELSE -1

\* resolveParameterIndex without a parameter index map: a numeric source is
\* the index itself, any other source is looked up among the parameter names.
resolveParameterIndex(source) ==
    IF isNumber(source) THEN NumberOf[source]
    ELSE indexOf(MethodParameterNames, source)

\* args[index]; undefined beyond the arguments given.
Arg(args, index) ==
    IF index + 1 \in 1..Len(args) THEN args[index + 1] ELSE Undefined

\* value[name] in JavaScript.
Property(value, name) ==
    IF value.t \in {"undefined", "TypeError"} THEN TypeError
    ELSE IF value.t = "object" /\ value.has /\ name = "id" THEN Str(value.id)
    ELSE Undefined

\* name in value, for an object.
HasProperty(value, name) == value.t = "object" /\ value.has /\ name = "id"

\* isObject of the decorator.
isObject(value) == value.t = "object"

findParameterValue(args, source, parameterIndex, path) ==
    IF isNumber(source) /\ path # ""
      THEN Property(Arg(args, NumberOf[source]), path)
    ELSE IF Len(args) = 1 /\ isObject(args[1]) /\ path = ""
      THEN Property(args[1], source)
    ELSE Arg(args, parameterIndex)

\* An element of the lock key, or the error thrown in place of it.
Element(v) == [error |-> "none", v |-> v]

Throws(error) == [error |-> error, v |-> ""]

\* A key parameter that names no parameter used literally in every mode.
keyParamElementAlwaysLiteral(keyParam, args, lockKeyPrefix) ==
    Element(Split(keyParam).source)

\* The function mapped over keyParams in constructLockKey.
keyParamElement(keyParam, args, lockKeyPrefix) ==
    LET source == Split(keyParam).source
        path == Split(keyParam).path
        parameterIndex == resolveParameterIndex(source)
        parameterValue ==
            findParameterValue(args, source, parameterIndex, path)
    IN IF parameterIndex >= 0
         THEN IF parameterValue.t = "TypeError" THEN Throws("TypeError")
              ELSE IF parameterValue.t = "undefined"
                THEN Throws("MurLockException")
              ELSE IF path # "" /\ HasProperty(parameterValue, path)
                THEN Element(Property(parameterValue, path).v)
              ELSE Element(parameterValue.v)
         ELSE IF lockKeyPrefix = "custom" THEN Element(source)
         ELSE Throws("MurLockException")

\* Array.prototype.join(':') of strings.
RECURSIVE Join(_)
Join(elements) ==
    IF Len(elements) = 0 THEN ""
    ELSE IF Len(elements) = 1 THEN elements[1]
    ELSE elements[1] \o ":" \o Join(Tail(elements))

\* The class and method names, pushed unless lockKeyPrefix is 'custom'.
Prefix(lockKeyPrefix) ==
    IF lockKeyPrefix # "custom" THEN <<ClassName, PropertyKey>> ELSE <<>>

\* constructLockKey(args, lockKeyPrefix = 'default'): the key, or the error of
\* the first key parameter that throws.
constructLockKey(keyParams, args, lockKeyPrefix) ==
    LET elements == [i \in 1..Len(keyParams) |->
                        keyParamElement(keyParams[i], args, lockKeyPrefix)]
        failed == {i \in 1..Len(keyParams) : elements[i].error # "none"}
    IN IF failed # {}
         THEN [error |-> elements[CHOOSE i \in failed :
                                      \A j \in failed : i <= j].error,
               key   |-> ""]
         ELSE [error |-> "none",
               key   |-> Join(Prefix(lockKeyPrefix)
                                \o [i \in 1..Len(keyParams) |->
                                        elements[i].v])]

\* A decorated method is called: the wrapper builds the lock key.
ConstructLockKey ==
    /\ decorated = NoDecorated
    /\ \E keyParams \in KeyParamLists, args \in ArgLists,
          lockKeyPrefix \in {"default", "custom"} :
         decorated' =
             [op            |-> "constructLockKey",
              keyParams     |-> keyParams,
              args          |-> args,
              lockKeyPrefix |-> lockKeyPrefix,
              result        |-> constructLockKey(keyParams, args,
                                                 lockKeyPrefix)]
    /\ UNCHANGED <<options, method, lockKeys, redis, pc, lockKey, clientId,
                   attemptsRemaining, delay, als, chain, alsLast, obs, last,
                   testService, client, cachedClientId>>

InitLockKey ==
    /\ options = IntegrationOptions
    /\ method = [releaseTime |-> MaxReleaseTime, wait |-> NoWait]
    /\ lockKeys = {"k1"}
    /\ Idle

NextLockKey == ConstructLockKey

SpecLockKey == InitLockKey /\ [][NextLockKey]_vars

(* The @MurLock decorator: a call of a decorated method *)

\* @MurLock(3000, 'userId') async criticalSection(userId)
WrappedKeyParams == <<"userId">>

\* The argument lists the decorated method is called with.
WrappedArgs == {<<Str("65782628")>>, <<Str("order2")>>}

\* The result of a call that has not resolved.
NoValue == "undefined"

\* criticalSection: return `executed:${userId}`.
originalMethod(args) == "executed:" \o args[1].v

\* The key of the store that stands for a lock key of criticalSection.
StoreKey(key) ==
    IF key \in {"65782628", Join(<<ClassName, PropertyKey, "65782628">>)}
      THEN "k1" ELSE "k2"

\* `await operation()` with the return dropped.
ResolvesVoid(outcome, value) == NoValue

\* try { return await operation() } finally { ... }: the value operation
\* resolved to, unless the block ended by an error.
Resolves(outcome, value) == IF outcome = "Returned" THEN value ELSE NoValue

\* The instance of the decorated class: whether murlockServiceDecorator was
\* injected, the service's lockKeyPrefix, and per call the arguments, the
\* value the original method returned, the value the wrapper resolved to and
\* the error the wrapper threw before runWithLock.
DecoratedInstances ==
    [op            : {"wrapped"},
     service       : BOOLEAN,
     lockKeyPrefix : {"default", "custom"},
     args          : [Calls -> WrappedArgs],
     value         : {[c \in Calls |-> NoValue]},
     result        : {[c \in Calls |-> NoValue]},
     thrown        : {[c \in Calls |-> "none"]}]

\* wrapped up to its first await: the service is read from the instance, the
\* lock key is built from the arguments with the service's lockKeyPrefix,
\* the service is checked, runWithLock is entered.
Wrapped(c) ==
    /\ decorated.op = "wrapped"
    /\ pc[c] = "idle"
    /\ decorated.thrown[c] = "none"
    /\ IF ~decorated.service
         THEN \* murLockService.options of undefined
              /\ decorated' = [decorated EXCEPT !.thrown[c] = "TypeError"]
              /\ pc' = [pc EXCEPT ![c] = "done"]
              /\ UNCHANGED <<options, method, lockKeys, redis, lockKey,
                             clientId, attemptsRemaining, delay, als, chain,
                             alsLast, obs, last, testService, client,
                             cachedClientId>>
         ELSE LET k == constructLockKey(WrappedKeyParams, decorated.args[c],
                                        decorated.lockKeyPrefix) IN
              IF k.error # "none"
                THEN /\ decorated' = [decorated EXCEPT !.thrown[c] = k.error]
                     /\ pc' = [pc EXCEPT ![c] = "done"]
                     /\ UNCHANGED <<options, method, lockKeys, redis, lockKey,
                                    clientId, attemptsRemaining, delay, als,
                                    chain, alsLast, obs, last, testService,
                                    client, cachedClientId>>
                ELSE /\ EnterRunWithLock(c, chain[c])
                     /\ lockKey'[c] = StoreKey(k.key)
                     /\ UNCHANGED <<chain, client>>

\* operation(): originalMethod.apply(this, args) resolves.
OriginalMethod(c) ==
    /\ decorated.op = "wrapped"
    /\ pc[c] = "body"
    /\ pc' = [pc EXCEPT ![c] = "unlock"]
    /\ obs' = [obs EXCEPT ![c].fn = "returned"]
    /\ decorated' = [decorated EXCEPT
                        !.value[c] = originalMethod(decorated.args[c])]
    /\ UNCHANGED <<options, method, lockKeys, redis, lockKey, clientId,
                   attemptsRemaining, delay, als, chain, alsLast, last,
                   testService, client, cachedClientId>>

\* The finally block of the runWithLock a wrapper called, and what the
\* wrapper resolves to.
UnlockWrapped(c) ==
    /\ decorated.op = "wrapped"
    /\ UnlockReply(c)
    /\ decorated' = [decorated EXCEPT
                        !.result[c] = Resolves(obs'[c].raised,
                                               decorated.value[c])]

InitWrapped ==
    /\ options \in Options
    /\ options.maxAttempts >= 1
    /\ ~options.blocking
    /\ method = [releaseTime |-> 1, wait |-> NoWait]
    /\ lockKeys = Keys
    /\ client = NewClient(FALSE)
    /\ decorated \in DecoratedInstances
    /\ IdleService

NextWrapped ==
    \/ \E c \in Calls : Wrapped(c)
    \/ \E c \in Calls : AttemptLock(c)
    \/ \E c \in Calls : Sleep(c)
    \/ \E c \in Calls : OriginalMethod(c)
    \/ \E c \in Calls : UnlockWrapped(c)
    \/ Tick

SpecWrapped == InitWrapped /\ [][NextWrapped]_vars

(* The release of a lock, with a store that may reject the unlock EVAL *)

InitRelease ==
    /\ options \in Options
    /\ options.maxAttempts = 1
    /\ ~options.blocking
    /\ method = [releaseTime |-> 1, wait |-> NoWait]
    /\ lockKeys = {"k1"}
    /\ Idle

NextRelease ==
    \/ \E c \in Calls : RunWithLock(c)
    \/ \E c \in Calls : AttemptLock(c)
    \/ \E c \in Calls : FnReturns(c)
    \/ \E c \in Calls : FnThrows(c)
    \/ \E c \in Calls : Unlock(c)
    \/ \E c \in Calls : UnlockError(c)
    \/ Tick

SpecRelease == InitRelease /\ [][NextRelease]_vars

(* The @MurLock decorator: the per-call wait of a decorated method *)

\* The second argument of @MurLock: nothing, a number, a function of the
\* retries, or the first key parameter.
WaitOrKeyParams ==
    WaitArgs \cup {[kind |-> "string", ms |-> 0]}

\* MurLock: a number or a function is the per-call wait, anything else is a
\* key parameter and leaves the wait undefined.
MurLockWait(waitOrKeyParam) ==
    IF waitOrKeyParam.kind \in {"number", "function"}
      THEN waitOrKeyParam
      ELSE NoWait

InitWait ==
    /\ options \in [wait : {BaseWait}, maxAttempts : 1..MaxDelayAttempts,
                     blocking : {FALSE}, ignoreUnlockFail : {TRUE}]
    /\ \E waitOrKeyParam \in WaitOrKeyParams :
         /\ decorated = [op |-> "MurLock", waitOrKeyParam |-> waitOrKeyParam]
         /\ method = [releaseTime |-> MaxReleaseTime,
                      wait        |-> MurLockWait(waitOrKeyParam)]
    /\ lockKeys = {"k1"}
    /\ client = NewClient(FALSE)
    /\ IdleService

NextWait ==
    \/ \E c \in Calls : RunWithLock(c)
    \/ \E c \in Calls : AttemptLock(c)
    \/ \E c \in Calls : Sleep(c)
    \/ \E c \in Calls : FnReturns(c)
    \/ \E c \in Calls : Unlock(c)

SpecWait == InitWait /\ [][NextWait]_vars

(* The service's log method *)

\* log: const levels = ['debug', 'log', 'warn', 'error'].
levels == <<"debug", "log", "warn", "error">>

\* MurLockModuleOptions['logLevel'].
LogLevels == {"none", "error", "warn", "log", "debug"}

\* log: whether this.logger[level] is called under the configured logLevel.
LogWrites(level, logLevel) ==
    indexOf(levels, level) >= indexOf(levels, logLevel)

\* A service with a logLevel, the levels log was called with and the levels
\* that reached the logger, in order.
InitLog ==
    /\ options = IntegrationOptions
    /\ method = [releaseTime |-> MaxReleaseTime, wait |-> NoWait]
    /\ lockKeys = {"k1"}
    /\ client = NewClient(FALSE)
    /\ decorated \in [op       : {"log"},
                      logLevel : LogLevels,
                      calls    : {<<>>},
                      written  : {<<>>}]
    /\ IdleService

\* this.log(level, message).
Log ==
    /\ decorated.op = "log"
    /\ Len(decorated.calls) < MaxLogCalls
    /\ \E level \in {levels[i] : i \in 1..Len(levels)} :
         decorated' =
             [decorated EXCEPT
                 !.calls = Append(@, level),
                 !.written = IF LogWrites(level, decorated.logLevel)
                               THEN Append(@, level)
                               ELSE @]
    /\ UNCHANGED <<options, method, lockKeys, redis, pc, lockKey, clientId,
                   attemptsRemaining, delay, als, chain, alsLast, obs, last,
                   testService, client, cachedClientId>>

NextLog == Log

SpecLog == InitLog /\ [][NextLog]_vars

\* C25: no record is leaked.  After every step: once a call that acquired has
\* ended and its unlock EVAL was answered (1 or 0), the store holds no record
\* of that call's token, so that on a key left free any other token's lock
\* EVAL returns 1; and every record has a remaining time-to-live of at most
\* releaseTime.  When time passes, every record loses one unit or is gone at
\* its last one: a record that nobody releases disappears by itself.
NoLeakedRecord ==
    [][ /\ \A c \in Calls :
              (pc'[c] = "done" /\ obs'[c].unlock \in {"0", "1"}) =>
                  /\ redis'[lockKey'[c]].owner # clientId'[c]
                  /\ redis'[lockKey'[c]] = NoRecord =>
                        \A d \in Calls \ {c} :
                            LockScript(redis', lockKey'[c], generateUuid(d),
                                       method.releaseTime).ret = 1
        /\ \A k \in Keys :
              redis'[k] # NoRecord =>
                  redis'[k].pttl \in 1..method.releaseTime
        /\ (pc' = pc /\ redis' # redis) =>
              \A k \in Keys :
                  redis[k] # NoRecord =>
                      \/ redis[k].pttl = 1 /\ redis'[k] = NoRecord
                      \/ /\ redis[k].pttl > 1
                         /\ redis'[k] = [redis[k] EXCEPT !.pttl = @ - 1]
      ]_vars

\* C25 witness: a call whose function threw has released its record, and the
\* next call has acquired the key right away.
NoLeakedRecordWitness ==
    \E c, d \in Calls :
        /\ c # d /\ lockKey[c] = lockKey[d]
        /\ pc[c] = "done" /\ obs[c].fn = "threw" /\ obs[c].unlock = "1"
        /\ pc[d] = "body" /\ Owns(d) /\ obs[d].attempts = 1

InstanceTokenShared ==
    [][ /\ \A c \in Calls :
              /\ clientId'[c] # Nil => clientId'[c] = cachedClientId'
              /\ obs'[c].lockIds \subseteq {cachedClientId'}
              /\ obs'[c].releaseId \in {Nil, cachedClientId'}
              /\ obs'[c].sleeps = 0 /\ pc'[c] # "sleep"
              /\ obs'[c].raised # "AcquireAttempts"
              /\ (obs'[c].attempts > 0 /\ ~obs'[c].lockError) =>
                     obs'[c].locked
        /\ \A c \in Calls :
              (pc[c] = "unlock" /\ pc'[c] = "done"
                 /\ redis[lockKey[c]] # NoRecord) =>
                  /\ obs'[c].unlock = "1"
                  /\ redis'[lockKey[c]] = NoRecord
      ]_vars

\* C28 witness: two call chains acquired the same key; the first to finish
\* has deleted the record, the other is still inside its function.
InstanceTokenSharedWitness ==
    \E c, d \in Calls :
        /\ c # d /\ lockKey[c] = lockKey[d]
        /\ obs[c].locked /\ obs[d].locked
        /\ pc[c] = "done" /\ obs[c].unlock = "1"
        /\ pc[d] = "body"
        /\ redis[lockKey[d]] = NoRecord

\* C29: no order among the waiters.  Whenever a lock EVAL of a call is
\* answered, the call acquires if the key is free at that moment, however
\* long other callers have been waiting, and is refused if the key is held
\* under another token, however early the call arrived.
FirstAtTheStoreWins ==
    [][ \A c \in Calls :
          (pc[c] = "attempt" /\ obs'[c].attempts = obs[c].attempts + 1) =>
              IF redis[lockKey[c]] = NoRecord
                THEN /\ pc'[c] = "body" /\ obs'[c].locked
                     /\ redis'[lockKey[c]].owner = clientId[c]
                ELSE redis[lockKey[c]].owner # clientId[c] =>
                       /\ pc'[c] \in {"sleep", "done"} /\ ~obs'[c].locked
                       /\ redis' = redis
      ]_vars

\* C29 witness: call c was refused before call d arrived; d acquired with
\* its first lock EVAL, ran and released; c acquired only afterwards.
FirstAtTheStoreWinsWitness ==
    \E c, d \in Calls :
        /\ c < d /\ lockKey[c] = lockKey[d]
        /\ pc[d] = "done" /\ obs[d].attempts = 1 /\ obs[d].locked
        /\ obs[d].unlock = "1"
        /\ pc[c] = "body" /\ Owns(c) /\ obs[c].attempts >= 2

\* The acquire phase of a call: lock() is running.
Acquiring(c) == pc[c] \in {"attempt", "sleep"}

AloneOnKey(c) ==
    \A d \in Calls \ {c} : pc[d] = "idle" \/ lockKey[d] # lockKey[c]

\* C31: the records of different keys are independent.  A step of a call
\* changes at most the record of the call's own key; a lock EVAL on a free
\* key acquires whatever other keys are held; and a call whose key no other
\* call uses is never refused: it acquires with its first lock EVAL, never
\* sleeps, its unlock EVAL returns 1 and it ends with what its function
\* returned.
KeysIndependent ==
    [][ \A c \in Calls :
          /\ pc'[c] # pc[c] =>
                \A k \in Keys \ {lockKey'[c]} : redis'[k] = redis[k]
          /\ (pc[c] = "attempt" /\ pc'[c] # "attempt"
                 /\ redis[lockKey[c]] = NoRecord) =>
                /\ pc'[c] = "body"
                /\ redis'[lockKey[c]].owner = clientId[c]
          /\ (pc'[c] # "idle" /\ AloneOnKey(c)') =>
                /\ obs'[c].attempts <= 1 /\ obs'[c].sleeps = 0
                /\ obs'[c].attempts = 1 => obs'[c].locked
                /\ obs'[c].unlock \in {"none", "1"}
                /\ pc'[c] = "done" => obs'[c].raised = "Returned"
      ]_vars

\* C31 witness: two calls on different keys hold their keys at the same time,
\* each after a single lock EVAL.
KeysIndependentWitness ==
    \E c, d \in Calls :
        /\ lockKey[c] # lockKey[d]
        /\ pc[c] = "body" /\ obs[c].attempts = 1 /\ Owns(c)
        /\ pc[d] = "body" /\ obs[d].attempts = 1 /\ Owns(d)

BlockingRetriesThroughErrors ==
    options.blocking =>
        \A c \in Calls :
            obs[c].lockError => (Acquiring(c) \/ obs[c].locked)

\* The key parameter is the name of a method parameter whose argument is a
\* string.
NamesStringArgument(keyParam, args) ==
    /\ \E i \in 1..Len(MethodParameterNames) :
          MethodParameterNames[i] = keyParam
    /\ Arg(args, indexOf(MethodParameterNames, keyParam)).t = "string"

\* The key parameter is the name of no method parameter.
NamesNoParameter(keyParam) ==
    \A i \in 1..Len(MethodParameterNames) :
        MethodParameterNames[i] # Split(keyParam).source

\* The element the key parameter stands for: the argument, or the key
\* parameter itself.
Resolved(keyParam, args) ==
    IF NamesNoParameter(keyParam) THEN keyParam
    ELSE Arg(args, indexOf(MethodParameterNames, keyParam)).v

\* The lock key of the last decorated call is as described, where literal
\* says which key parameters count as naming no method parameter.
LockKeyAsDescribed(literal) ==
    decorated.op = "constructLockKey" =>
        LET keyParams == decorated.keyParams
            args == decorated.args
            result == decorated.result
            resolved == [i \in 1..Len(keyParams) |->
                            Resolved(keyParams[i], args)]
            literals == {i \in 1..Len(keyParams) : keyParams[i] \in literal}
        IN (\A i \in 1..Len(keyParams) :
               \/ keyParams[i] \in literal
               \/ NamesStringArgument(keyParams[i], args)) =>
           IF decorated.lockKeyPrefix = "custom"
             THEN result = [error |-> "none", key |-> Join(resolved)]
             ELSE IF literals # {}
               THEN result = [error |-> "MurLockException", key |-> ""]
               ELSE result =
                      [error |-> "none",
                       key   |-> Join(<<ClassName, PropertyKey>> \o resolved)]

BodyOnceUnderLockAndResultReturned ==
    \A c \in Calls :
        /\ obs[c].bodies <= 1
        /\ obs[c].bodies = 1 => obs[c].locked
        /\ decorated.value[c] # NoValue => obs[c].bodies = 1
        /\ (pc[c] = "done" /\ obs[c].fn = "returned" /\ ~ReleaseFailed(c)) =>
               /\ decorated.result[c] = decorated.value[c]
               /\ decorated.result[c] = "executed:" \o decorated.args[c][1].v

BodyOnceUnderLockAndResultReturnedWitness ==
    \E c \in Calls :
        /\ pc[c] = "done" /\ obs[c].attempts = 2 /\ obs[c].bodies = 1
        /\ obs[c].unlock = "1"
        /\ decorated.args[c] = <<Str("65782628")>>
        /\ decorated.result[c] = "executed:65782628"

\* C36: a call whose acquire phase did not succeed (attempts exhausted, or
\* the lock EVAL rejected) sends no unlock EVAL, and the step that ends it
\* leaves the record another owner holds under its key as it was.
FailedAcquireSendsNoRelease ==
    [][\A c \in Calls :
          (pc'[c] = "done" /\ ~obs'[c].locked) =>
              /\ obs'[c].releases = 0
              /\ obs'[c].releaseId = Nil
              /\ obs'[c].unlock = "none"
              /\ (/\ pc[c] # "done"
                  /\ redis[lockKey[c]] # NoRecord
                  /\ redis[lockKey[c]].owner # clientId[c]) =>
                     redis'[lockKey[c]] = redis[lockKey[c]]]_vars

FailedAcquireSendsNoReleaseWitness ==
    \E c, d \in Calls :
        /\ c # d /\ lockKey[c] = lockKey[d]
        /\ pc[c] = "done" /\ obs[c].raised = "AcquireAttempts"
        /\ obs[c].attempts >= 1 /\ obs[c].releases = 0
        /\ pc[d] = "body" /\ Owns(d)
        /\ redis[lockKey[d]].pttl = MaxReleaseTime

ZeroWaitIsNoOverride ==
    decorated.waitOrKeyParam = [kind |-> "number", ms |-> 0] =>
        /\ method.wait.kind = "number" /\ method.wait.ms = 0
        /\ \A c \in Calls :
              /\ pc[c] = "sleep" =>
                    /\ delay[c] = options.wait * obs[c].attempts
                    /\ delay[c] > 0
              /\ obs[c].waited =
                     options.wait *
                         ((obs[c].sleeps * (obs[c].sleeps + 1)) \div 2)

ZeroWaitIsNoOverrideWitness ==
    /\ decorated.waitOrKeyParam = [kind |-> "number", ms |-> 0]
    /\ \E c \in Calls :
          /\ pc[c] = "sleep" /\ obs[c].attempts = 2
          /\ delay[c] = 2 * BaseWait /\ obs[c].waited = BaseWait

\* C39 (as stated): when the service is not available on the instance, a
\* call of the decorated method rejects with the MurLockException
\* 'MurLockService is not available.', sends no lock EVAL and does not run
\* the original method.
UnavailableServiceIsMurLockException ==
    ~decorated.service =>
        \A c \in Calls :
            pc[c] = "done" =>
                /\ decorated.thrown[c] = "MurLockService is not available."
                /\ obs[c].attempts = 0
                /\ obs[c].bodies = 0
                /\ decorated.value[c] = NoValue

\* The order of the log levels: debug < log < warn < error.
Severity == ("debug" :> 0) @@ ("log" :> 1) @@ ("warn" :> 2) @@ ("error" :> 3)

\* C40 (as stated): a message of level L reaches the logger only when L is
\* at least as severe as the configured logLevel, in the order debug < log <
\* warn < error, and with logLevel 'none' nothing reaches the logger.
LogLevelFilters ==
    /\ decorated.logLevel = "none" => decorated.written = <<>>
    /\ decorated.logLevel # "none" =>
          \A i \in 1..Len(decorated.written) :
              Severity[decorated.written[i]] >= Severity[decorated.logLevel]

====
